---- MODULE Spec2Model ----
(***************************************************************************)
(* Model of the binary snapshot serialization layer of MICE (utils.py):    *)
(* read_header, write_dummy, write_block and write_snapshot.               *)
(*                                                                         *)
(* Bytes are integers 0..255, a file (sink) is a sequence of bytes.  A     *)
(* Python str is the sequence of its code points.  A Python value handed   *)
(* to struct is an item [k, v, n]: k its type ("int", "float", "str",      *)
(* "bytes"), v its value (whole numbers only; for bytes: the first byte),  *)
(* n the length of a bytes object.  A payload (block_data) is a record     *)
(* [kind, elems, raw]: a list of items, a bytes object, or None.           *)
(***************************************************************************)
EXTENDS Integers, Sequences, FiniteSets, TLC

(***************************************************************************)
(* Bounds of the model.                                                    *)
(***************************************************************************)
MaxGas == 2          \* gas counts of the write_snapshot inputs: 0..MaxGas
MaxLen == 2          \* element counts of the payload arrays: 0..MaxLen
MaxData == 8         \* lengths of data_list: 0..MaxData
MaxNPartLen == 7     \* lengths of n_part: 0..MaxNPartLen
MaxVal == 3          \* element values: 0..MaxVal
BigCount == 16909060 \* a particle count filling all four bytes (0x01020304)

(***************************************************************************)
(* Sequence helpers.                                                       *)
(***************************************************************************)
Rep(x, n) == [i \in 1..n |-> x]

RECURSIVE Pow2(_)
Pow2(e) == IF e = 0 THEN 1 ELSE 2 * Pow2(e - 1)

RECURSIVE Log2(_)
Log2(v) == IF v <= 1 THEN 0 ELSE 1 + Log2(v \div 2)

(***************************************************************************)
(* Python values.                                                          *)
(***************************************************************************)
PyInt(v) == [k |-> "int", v |-> v, n |-> 1]

PyFloat(v) == [k |-> "float", v |-> v, n |-> 1]

PyBytes(first, len) == [k |-> "bytes", v |-> first, n |-> len]

PyList(items) == [kind |-> "list", elems |-> items, raw |-> <<>>]

PyByteString(bs) == [kind |-> "bytes", elems |-> <<>>, raw |-> bs]

PyNone == [kind |-> "None", elems |-> <<>>, raw |-> <<>>]

PyFalse == [kind |-> "bool", elems |-> <<>>, raw |-> <<>>]

\* a local variable no assignment has bound: reading it raises UnboundLocalError
Unbound == [kind |-> "unbound", elems |-> <<>>, raw |-> <<>>]

\* len(x) is defined
Sized(x) == x.kind \in {"list", "bytes"}

\* len(x)
PyLen(x) == IF x.kind = "bytes" THEN Len(x.raw) ELSE Len(x.elems)

\* *x : the items iterating over x yields (a bytes object yields ints)
PyIter(x) ==
    IF x.kind = "bytes" THEN [i \in 1..Len(x.raw) |-> PyInt(x.raw[i])] ELSE x.elems

\* bytes(ch, 'utf-8') for one character: one byte below U+0080, two below U+0800
Utf8(ch) == IF ch < 128 THEN PyBytes(ch, 1) ELSE PyBytes(192 + (ch \div 64), 2)

(***************************************************************************)
(* struct: native mode ('@', the default of the format strings used).      *)
(***************************************************************************)
byteorder == "little"

Native(bs) == IF byteorder = "little" THEN bs ELSE [i \in 1..Len(bs) |-> bs[Len(bs) + 1 - i]]

\* 32-bit two's complement
Int32Bytes(v) ==
    Native(<<v % 256, (v \div 256) % 256, (v \div 65536) % 256, (v \div 16777216) % 256>>)

\* IEEE-754 single of a whole number v >= 0
Float32Bytes(v) ==
    IF v = 0 THEN Int32Bytes(0)
    ELSE LET e == Log2(v)
         IN Int32Bytes((127 + e) * Pow2(23) + (v - Pow2(e)) * Pow2(23 - e))

\* IEEE-754 double of a whole number v >= 0: low word, high word
Float64Bytes(v) ==
    IF v = 0 THEN Native(Rep(0, 8))
    ELSE LET e == Log2(v)
             hi == (1023 + e) * Pow2(20) + (v - Pow2(e)) * Pow2(20 - e)
         IN Native(<<0, 0, 0, 0, hi % 256, (hi \div 256) % 256,
                     (hi \div 65536) % 256, (hi \div 16777216) % 256>>)

\* the sizes with 'i' taken for a 64-bit integer
CodeSize_LongInt(c) == CASE c = "i" -> 8 [] c = "f" -> 4 [] c = "d" -> 8 [] OTHER -> 1

CodeSize(c) == CASE c = "i" -> 4 [] c = "f" -> 4 [] c = "d" -> 8 [] OTHER -> 1

\* what struct accepts for a format code
CodeAccepts(c, item) ==
    CASE c = "i" -> item.k = "int"
      [] c \in {"f", "d"} -> item.k \in {"int", "float"}
      [] OTHER -> item.k = "bytes" /\ item.n = 1

CodeBytes(c, item) ==
    CASE c = "i" -> Int32Bytes(item.v)
      [] c = "f" -> Float32Bytes(item.v)
      [] c = "d" -> Float64Bytes(item.v)
      [] OTHER -> <<item.v>>

\* native alignment: each item starts at a multiple of its size
AlignPad(off, c) == Rep(0, (CodeSize(c) - (off % CodeSize(c))) % CodeSize(c))

\* the bytes of items lo..hi, the first of them at offset off
RECURSIVE PackRange(_, _, _, _, _)
PackRange(fmt, items, lo, hi, off) ==
    IF lo > hi THEN <<>>
    ELSE IF lo = hi THEN AlignPad(off, fmt[lo]) \o CodeBytes(fmt[lo], items[lo])
    ELSE LET mid == (lo + hi) \div 2
             left == PackRange(fmt, items, lo, mid, off)
         IN  left \o PackRange(fmt, items, mid + 1, hi, off + Len(left))

\* struct.pack(fmt, *items) / struct.Struct(fmt).pack(*items)
Pack(fmt, items) ==
    IF Len(fmt) # Len(items) THEN [exc |-> "struct.error", bytes |-> <<>>]
    ELSE IF \E i \in 1..Len(fmt) : ~CodeAccepts(fmt[i], items[i])
    THEN [exc |-> "struct.error", bytes |-> <<>>]
    ELSE [exc |-> "none", bytes |-> PackRange(fmt, items, 1, Len(fmt), 0)]

(***************************************************************************)
(* read_header                                                             *)
(***************************************************************************)
\* the format string of the header struct
HeaderFmt ==
    Rep("i", 6) \o Rep("d", 6) \o <<"d", "d", "i", "i">> \o Rep("i", 6)
    \o <<"i", "i">> \o Rep("d", 4) \o <<"i", "i">> \o Rep("c", 4) \o Rep("c", 64)
    \o Rep("c", 20)

\* h_data with the totals left at 0
h_data_ZeroTotals(n_part) ==
    [j \in 1..Len(n_part) |-> PyInt(n_part[j])]
    \o Rep(PyFloat(0), 6)
    \o <<PyFloat(0), PyFloat(0), PyInt(0), PyInt(0)>>
    \o [j \in 1..Len(n_part) |-> PyInt(0)]
    \o <<PyInt(0), PyInt(1)>>
    \o <<PyFloat(0), PyFloat(0), PyFloat(0), PyFloat(1)>>
    \o <<PyInt(0), PyInt(0)>>
    \o Rep(PyBytes(0, 1), 88)

\* h_data as the appends build it
h_data(n_part) ==
    [j \in 1..Len(n_part) |-> PyInt(n_part[j])]                 \* n_part
    \o Rep(PyFloat(0), 6)                                       \* mass table
    \o <<PyFloat(0), PyFloat(0), PyInt(0), PyInt(0)>>           \* time, redshift, flag_sfr, flag_feedback
    \o [j \in 1..Len(n_part) |-> PyInt(n_part[j])]              \* n_part_total
    \o <<PyInt(0), PyInt(1)>>                                   \* flag_cooling, num_files
    \o <<PyFloat(0), PyFloat(0), PyFloat(0), PyFloat(1)>>       \* box_size, omega0, omega_lambda, hubble_param
    \o <<PyInt(0), PyInt(0)>>                                   \* flag_age, flag_metals
    \o Rep(PyBytes(0, 1), 88)                                   \* filler

\* read_header(n_part): [exc, bytes]
read_header(n_part) == Pack(HeaderFmt, h_data(n_part))

(***************************************************************************)
(* write_dummy, write_block                                                *)
(***************************************************************************)
RECURSIVE write_dummy(_, _)
write_dummy(f, values_list) ==
    IF values_list = <<>> THEN f
    ELSE write_dummy(f \o Pack(<<"i">>, <<PyInt(Head(values_list))>>).bytes,
                     Tail(values_list))

HEAD == <<72, 69, 65, 68>>

\* nbytes counting the elements, not their bytes
nbytes_ElementCount(block_data, block_name) ==
    IF block_name = <<72, 69, 65, 68>> THEN 256 ELSE PyLen(block_data)

\* nbytes of a block
nbytes(block_data, block_name) ==
    IF block_name = HEAD THEN 256 ELSE PyLen(block_data) * 4

\* write_block(f, block_data, data_type, block_name): [f, exc], f the sink as the
\* call leaves it, exc the exception it raises ("none": it returns)
write_block(f, block_data, data_type, block_name) ==
    LET f1 == write_dummy(f, <<8>>)
        block_name_binary == [i \in 1..Len(block_name) |-> Utf8(block_name[i])]
        packed_name == Pack(Rep("c", 4), block_name_binary)
    IN  IF packed_name.exc # "none" THEN [f |-> f1, exc |-> packed_name.exc]
        ELSE
        LET f2 == f1 \o packed_name.bytes
        IN  IF block_name # HEAD /\ (~Sized(block_data) \/ data_type = "None")
            THEN [f |-> f2, exc |-> "TypeError"]
            ELSE
            LET nb == nbytes(block_data, block_name)
                f3 == write_dummy(f2, <<nb + 8, 8, nb>>)
            IN  IF block_name = HEAD
                THEN IF block_data.kind # "bytes"
                     THEN [f |-> f3, exc |-> "TypeError"]
                     ELSE [f |-> write_dummy(f3 \o block_data.raw, <<nb>>), exc |-> "none"]
                ELSE
                LET fmt == Rep(data_type, PyLen(block_data))
                    packed == Pack(fmt, PyIter(block_data))
                IN  IF packed.exc # "none" THEN [f |-> f3, exc |-> packed.exc]
                    ELSE [f |-> write_dummy(f3 \o packed.bytes, <<nb>>), exc |-> "none"]

(***************************************************************************)
(* write_snapshot                                                          *)
(***************************************************************************)
\* the names of the blocks, as the str literals of the write_block calls
BlockName(b) ==
    CASE b = "HEAD" -> HEAD
      [] b = "POS " -> <<80, 79, 83, 32>>
      [] b = "VEL " -> <<86, 69, 76, 32>>
      [] b = "ID  " -> <<73, 68, 32, 32>>
      [] b = "MASS" -> <<77, 65, 83, 83>>
      [] b = "U   " -> <<85, 32, 32, 32>>
      [] b = "Z   " -> <<90, 32, 32, 32>>
      [] b = "RHO " -> <<82, 72, 79, 32>>
      [] OTHER -> <<72, 83, 77, 76>>

\* the gas count read from the halo slot
N_gas_Halo(np) == IF Len(np) > 1 THEN np[2] ELSE np[1]

\* N_gas = n_part[0]
N_gas(np) == np[1]

\* the statements of write_snapshot before the first write_block call, with the
\* call reading the header first and testing the format afterwards
write_snapshot_HeaderFirst(np, dl, ff) ==
    LET fail(e) == [exc |-> e, f_status |-> "none", header_data |-> <<>>]
    IN  IF Len(np) = 0 THEN fail("IndexError")
        ELSE IF Len(dl) < 4 THEN fail("IndexError")
        ELSE IF N_gas(np) > 0 /\ Len(dl) < 7 THEN fail("IndexError")
        ELSE LET h == read_header(np)
             IN  IF h.exc # "none" THEN fail(h.exc)
                 ELSE IF ff # "gadget2" THEN fail("ValueError")
                 ELSE [exc |-> "none", f_status |-> "open", header_data |-> h.bytes]

\* the same statements with the format tested before data_list is partitioned
write_snapshot_FormatFirst(np, dl, ff) ==
    LET fail(e) == [exc |-> e, f_status |-> "none", header_data |-> <<>>]
    IN  IF ff # "gadget2" THEN fail("ValueError")
        ELSE IF Len(np) = 0 THEN fail("IndexError")
        ELSE IF Len(dl) < 4 THEN fail("IndexError")
        ELSE IF N_gas(np) > 0 /\ Len(dl) < 7 THEN fail("IndexError")
        ELSE LET h == read_header(np)
             IN  IF h.exc # "none" THEN fail(h.exc)
                 ELSE [exc |-> "none", f_status |-> "open", header_data |-> h.bytes]

\* the same statements with read_header called inside the with statement: the
\* file is open (and truncated) when read_header raises, and closed on the way out
write_snapshot_OpenFirst(np, dl, ff) ==
    LET fail(e) == [exc |-> e, f_status |-> "none", header_data |-> <<>>]
    IN  IF Len(np) = 0 THEN fail("IndexError")
        ELSE IF Len(dl) < 4 THEN fail("IndexError")
        ELSE IF N_gas(np) > 0 /\ Len(dl) < 7 THEN fail("IndexError")
        ELSE IF ff # "gadget2" THEN fail("ValueError")
        ELSE LET h == read_header(np)
             IN  IF h.exc # "none"
                 THEN [exc |-> h.exc, f_status |-> "closed", header_data |-> <<>>]
                 ELSE [exc |-> "none", f_status |-> "open", header_data |-> h.bytes]

\* the statements of write_snapshot before the first write_block call: the
\* partitioning of data_list, the format test, read_header and open(outfile, 'wb').
\* [exc, f_status, header_data]
write_snapshot(np, dl, ff) ==
    LET fail(e) == [exc |-> e, f_status |-> "none", header_data |-> <<>>]
    IN  IF Len(np) = 0 THEN fail("IndexError")                       \* n_part[0]
        ELSE IF Len(dl) < 4 THEN fail("IndexError")                  \* data_list[0..3]
        ELSE IF N_gas(np) > 0 /\ Len(dl) < 7 THEN fail("IndexError") \* data_list[4..6]
        ELSE IF ff # "gadget2" THEN fail("ValueError")
        ELSE LET h == read_header(np)
             IN  IF h.exc # "none" THEN fail(h.exc)
                 ELSE [exc |-> "none", f_status |-> "open", header_data |-> h.bytes]

\* the payload each write_block call of write_snapshot passes: the local variable
\* the partitioning bound (U_data, rho_data, smoothing_data only with gas; Z is
\* False without an eighth entry)
BlockData(b, np, dl, hd) ==
    CASE b = "HEAD" -> PyByteString(hd)
      [] b = "POS " -> dl[1]
      [] b = "VEL " -> dl[2]
      [] b = "ID  " -> dl[3]
      [] b = "MASS" -> dl[4]
      [] b = "U   " -> IF N_gas(np) > 0 THEN dl[5] ELSE Unbound
      [] b = "Z   " -> IF Len(dl) > 7 THEN dl[8] ELSE PyFalse
      [] b = "RHO " -> IF N_gas(np) > 0 THEN dl[6] ELSE Unbound
      [] OTHER -> IF N_gas(np) > 0 THEN dl[7] ELSE Unbound

BlockType(b) == CASE b = "HEAD" -> "None" [] b = "ID  " -> "i" [] OTHER -> "f"

\* the order of the calls with VEL written before POS
AfterBlock_VelBeforePos(b, gas, dl) ==
    CASE b = "HEAD" -> "VEL "
      [] b = "VEL " -> "POS "
      [] b = "POS " -> "ID  "
      [] b = "ID  " -> "MASS"
      [] b = "MASS" -> IF gas > 0 THEN "U   " ELSE "returned"
      [] b = "U   " -> IF Len(dl) > 7 THEN "Z   " ELSE "RHO "
      [] b = "Z   " -> "RHO "
      [] b = "RHO " -> "HSML"
      [] OTHER -> "returned"

\* the order of the calls with Z written after RHO
AfterBlock_ZAfterRho(b, gas, dl) ==
    CASE b = "HEAD" -> "POS "
      [] b = "POS " -> "VEL "
      [] b = "VEL " -> "ID  "
      [] b = "ID  " -> "MASS"
      [] b = "MASS" -> IF gas > 0 THEN "U   " ELSE "returned"
      [] b = "U   " -> "RHO "
      [] b = "RHO " -> IF Len(dl) > 7 THEN "Z   " ELSE "HSML"
      [] b = "Z   " -> "HSML"
      [] OTHER -> "returned"

\* the statement that follows the write_block call of block b
AfterBlock(b, gas, dl) ==
    CASE b = "HEAD" -> "POS "
      [] b = "POS " -> "VEL "
      [] b = "VEL " -> "ID  "
      [] b = "ID  " -> "MASS"
      [] b = "MASS" -> IF gas > 0 THEN "U   " ELSE "returned"
      [] b = "U   " -> IF Len(dl) > 7 THEN "Z   " ELSE "RHO "
      [] b = "Z   " -> "RHO "
      [] b = "RHO " -> "HSML"
      [] OTHER -> "returned"

(***************************************************************************)
(* read_configuration_file                                                 *)
(*                                                                         *)
(* A document is [file, hasHeader, header]: file is "ok", "missing" (no    *)
(* file at filepath) or "invalid" (not TOML); header is the HEADER table   *)
(* in document order, a sequence of [key, t], t the type of the value.     *)
(***************************************************************************)
\* header_typing, in the order of the dict literal
header_typing ==
    <<[key |-> "mass_array", t |-> "list"], [key |-> "time", t |-> "float"],
      [key |-> "redshift", t |-> "float"], [key |-> "flag_sfr", t |-> "int"],
      [key |-> "flag_cooling", t |-> "int"], [key |-> "flag_feedback", t |-> "int"],
      [key |-> "num_files", t |-> "int"], [key |-> "boxsize", t |-> "float"],
      [key |-> "omega0", t |-> "float"], [key |-> "omega_lambda", t |-> "float"],
      [key |-> "hubble_param", t |-> "float"], [key |-> "flag_age", t |-> "int"],
      [key |-> "flag_metals", t |-> "int"]>>

\* key in d, for a dict d in insertion order
HasKey(d, key) == \E i \in 1..Len(d) : d[i].key = key

\* missing_headers = [i for i in header_typing if i not in header]
missing_headers(hdr) == {i \in 1..Len(header_typing) : ~HasKey(hdr, header_typing[i].key)}

\* for key, value in header: header[key] = header_typing[key](value)
\* Iterating a dict yields its keys; the target list unpacks each key, a str,
\* into its characters: a key of other than 2 characters raises ValueError, a key
\* of 2 characters binds key to its first character, which header_typing (no key
\* of 1 character) does not hold.  [exc, header]
coerce_loop(hdr) ==
    IF Len(hdr) = 0 THEN [exc |-> "none", header |-> hdr]
    ELSE IF Len(hdr[1].key) # 2 THEN [exc |-> "ValueError", header |-> hdr]
    ELSE [exc |-> "KeyError", header |-> hdr]

\* read_configuration_file(filepath): [exc, header]
read_configuration_file(doc) ==
    IF doc.file = "missing" THEN [exc |-> "OSError", header |-> <<>>]
    ELSE IF doc.file = "invalid" THEN [exc |-> "SyntaxError", header |-> <<>>]
    ELSE IF ~doc.hasHeader THEN [exc |-> "SyntaxError", header |-> <<>>]
    ELSE IF missing_headers(doc.header) # {} THEN [exc |-> "SyntaxError", header |-> doc.header]
    ELSE coerce_loop(doc.header)

(***************************************************************************)
(* The inputs of the calls.                                                *)
(***************************************************************************)
ElemKinds == {"int", "float", "str"}

Item(k, v) == [k |-> k, v |-> v, n |-> 1]

\* a list of n elements of type k
ListOf(k, n) == PyList([i \in 1..n |-> Item(k, i % (MaxVal + 1))])

\* n_part of length L with g gas particles
NPartOf(g, L) == [i \in 1..L |-> IF i = 1 THEN g ELSE i - 1]

\* data_list of DL arrays of n elements, floats but for the identifiers; with
\* bad > 0, entry bad is instead None (fault "None") or a list of fault elements
DataListOf(DL, n, bad, fault) ==
    [i \in 1..DL |->
        IF i = bad
        THEN IF fault = "None" THEN PyNone ELSE ListOf(fault, n)
        ELSE ListOf(IF i = 3 THEN "int" ELSE "float", n)]

Formats == {"gadget2", "hdf5"}

CountVals == {0, 1, BigCount}

HeaderInputs == UNION {[1..L -> CountVals] : L \in 0..MaxNPartLen}

\* block names: HEAD, 'POS ', 'U', '', 'HEADS', and four characters of which
\* one is not ASCII
NameInputs == {HEAD, <<80, 79, 83, 32>>, <<85>>, <<>>, <<72, 69, 65, 68, 83>>,
               <<233, 80, 79, 83>>}

PayloadInputs ==
    {ListOf(k, n) : k \in ElemKinds, n \in 0..MaxLen}
    \cup {PyNone, PyByteString(<<1, 2, 3>>), PyByteString(read_header(NPartOf(1, 6)).bytes)}

TypeInputs == {"f", "i", "None"}

SinkInputs == {<<>>, <<0, 1>>}

\* the other type a TOML number can have
OtherType(t) == CASE t = "int" -> "float" [] t = "float" -> "int" [] OTHER -> t

\* a HEADER table: the required keys but for number drop (0: all of them), the
\* values of the declared types or, with swap, ints for floats and floats for
\* ints; in front of them no other key, the key 'ab' or the key 'extra'
HeaderOf(drop, swap, extra) ==
    LET kept == SelectSeq([i \in 1..Len(header_typing) |->
                              [key |-> header_typing[i].key,
                               t |-> IF swap THEN OtherType(header_typing[i].t)
                                     ELSE header_typing[i].t,
                               i |-> i]],
                          LAMBDA e : e.i # drop)
        req == [i \in 1..Len(kept) |-> [key |-> kept[i].key, t |-> kept[i].t]]
    IN  IF extra = "none" THEN req ELSE <<[key |-> extra, t |-> "int"]>> \o req

DocInputs ==
    {[file |-> fl, hasHeader |-> hh, header |-> IF hh THEN HeaderOf(drop, swap, extra) ELSE <<>>] :
        fl \in {"ok", "missing", "invalid"}, hh \in BOOLEAN,
        drop \in 0..Len(header_typing), swap \in BOOLEAN, extra \in {"none", "ab", "extra"}}

(***************************************************************************)
(* State.                                                                  *)
(***************************************************************************)
VARIABLES
    call,         \* the function called: "none", "read_header", "write_block", "write_snapshot"
    pc,           \* "idle"; in write_snapshot the block to write next; "returned"; "raised"
    exc,          \* the exception the call raised, "none" if none
    n_part,       \* argument of read_header and write_snapshot
    data_list,    \* argument of write_snapshot
    file_format,  \* argument of write_snapshot
    header_data,  \* write_snapshot: the packed header
    packed_data,  \* what read_header returned
    outfile,      \* the bytes of the sink
    f_status,     \* the file object f: "none" (never opened), "open", "closed"
    block_name,   \* arguments of the last write_block call
    block_data,
    data_type,
    pre,          \* the bytes of the sink when the last write_block call began
    configuration_data,  \* read_configuration_file: the document at filepath
    header        \* read_configuration_file: the HEADER table as the call leaves it

vars == <<call, pc, exc, n_part, data_list, file_format, header_data, packed_data,
          outfile, f_status, block_name, block_data, data_type, pre,
          configuration_data, header>>

Init ==
    /\ call = "none"
    /\ pc = "idle"
    /\ exc = "none"
    /\ n_part = <<>>
    /\ data_list = <<>>
    /\ file_format = "gadget2"
    /\ header_data = <<>>
    /\ packed_data = <<>>
    /\ outfile = <<>>
    /\ f_status = "none"
    /\ block_name = <<>>
    /\ block_data = PyNone
    /\ data_type = "None"
    /\ pre = <<>>
    /\ configuration_data = [file |-> "missing", hasHeader |-> FALSE, header |-> <<>>]
    /\ header = <<>>

\* a call of read_header(np)
CallReadHeader ==
    /\ pc = "idle"
    /\ \E np \in HeaderInputs :
         \E r \in {read_header(np)} :
             /\ call' = "read_header"
             /\ n_part' = np
             /\ exc' = r.exc
             /\ packed_data' = r.bytes
             /\ pc' = IF r.exc = "none" THEN "returned" ELSE "raised"
    /\ UNCHANGED <<data_list, file_format, header_data, outfile, f_status,
                   block_name, block_data, data_type, pre, configuration_data, header>>

\* a call of write_block(f, bd, dt, bn) on an open sink holding s
CallWriteBlock ==
    /\ pc = "idle"
    /\ \E s \in SinkInputs, bd \in PayloadInputs, dt \in TypeInputs, bn \in NameInputs :
         \E r \in {write_block(s, bd, dt, bn)} :
             /\ call' = "write_block"
             /\ block_data' = bd
             /\ data_type' = dt
             /\ block_name' = bn
             /\ pre' = s
             /\ outfile' = r.f
             /\ exc' = r.exc
             /\ pc' = IF r.exc = "none" THEN "returned" ELSE "raised"
    /\ f_status' = "open"
    /\ UNCHANGED <<n_part, data_list, file_format, header_data, packed_data,
                   configuration_data, header>>

\* a call of write_snapshot(np, dl, outfile, ff), up to and including open()
CallWriteSnapshot ==
    /\ pc = "idle"
    /\ \E g \in 0..MaxGas, L \in 0..MaxNPartLen, DL \in 0..MaxData, n \in 1..MaxLen,
          bad \in 0..MaxData, fault \in ElemKinds \cup {"None"}, ff \in Formats :
         \E np \in {NPartOf(g, L)}, dl \in {DataListOf(DL, n, bad, fault)} :
         \E r \in {write_snapshot(np, dl, ff)} :
             /\ bad <= DL
             /\ call' = "write_snapshot"
             /\ n_part' = np
             /\ data_list' = dl
             /\ file_format' = ff
             /\ exc' = r.exc
             /\ f_status' = r.f_status
             /\ header_data' = r.header_data
             /\ pc' = IF r.exc = "none" THEN "HEAD" ELSE "raised"
    /\ UNCHANGED <<packed_data, outfile, block_name, block_data, data_type, pre,
                   configuration_data, header>>

\* the write_block call of block b with f opened by a plain open(): an exception
\* leaves the call with f open
SnapshotBlock_NoWith(b) ==
    /\ call = "write_snapshot"
    /\ pc = b
    /\ \E bd \in {BlockData(b, n_part, data_list, header_data)} :
         IF bd = Unbound
         THEN /\ exc' = "UnboundLocalError"
              /\ pc' = "raised"
              /\ f_status' = "open"
              /\ UNCHANGED <<outfile, block_data, data_type, block_name, pre>>
         ELSE \E r \in {write_block(outfile, bd, BlockType(b), BlockName(b))} :
              /\ block_data' = bd
              /\ data_type' = BlockType(b)
              /\ block_name' = BlockName(b)
              /\ pre' = outfile
              /\ outfile' = r.f
              /\ exc' = r.exc
              /\ pc' = IF r.exc = "none" THEN AfterBlock(b, N_gas(n_part), data_list)
                       ELSE "raised"
              /\ f_status' = IF pc' = "returned" THEN "closed" ELSE "open"
    /\ UNCHANGED <<call, n_part, data_list, file_format, header_data, packed_data,
                   configuration_data, header>>

\* the write_block call of block b inside the with statement; an exception leaves
\* the with statement, which closes f, and so does the end of its body
SnapshotBlock(b) ==
    /\ call = "write_snapshot"
    /\ pc = b
    /\ \E bd \in {BlockData(b, n_part, data_list, header_data)} :
         IF bd = Unbound
         THEN /\ exc' = "UnboundLocalError"
              /\ pc' = "raised"
              /\ f_status' = "closed"
              /\ UNCHANGED <<outfile, block_data, data_type, block_name, pre>>
         ELSE \E r \in {write_block(outfile, bd, BlockType(b), BlockName(b))} :
              /\ block_data' = bd
              /\ data_type' = BlockType(b)
              /\ block_name' = BlockName(b)
              /\ pre' = outfile
              /\ outfile' = r.f
              /\ exc' = r.exc
              /\ pc' = IF r.exc = "none" THEN AfterBlock(b, N_gas(n_part), data_list)
                       ELSE "raised"
              /\ f_status' = IF pc' \in {"returned", "raised"} THEN "closed" ELSE "open"
    /\ UNCHANGED <<call, n_part, data_list, file_format, header_data, packed_data,
                   configuration_data, header>>

\* a call of read_configuration_file(filepath), doc the document at filepath
CallReadConfigurationFile ==
    /\ pc = "idle"
    /\ \E doc \in DocInputs :
         \E r \in {read_configuration_file(doc)} :
             /\ call' = "read_configuration_file"
             /\ configuration_data' = doc
             /\ header' = r.header
             /\ exc' = r.exc
             /\ pc' = IF r.exc = "none" THEN "returned" ELSE "raised"
    /\ UNCHANGED <<n_part, data_list, file_format, header_data, packed_data, outfile,
                   f_status, block_name, block_data, data_type, pre>>

WriteHEAD == SnapshotBlock("HEAD")

WritePOS == SnapshotBlock("POS ")

WriteVEL == SnapshotBlock("VEL ")

WriteID == SnapshotBlock("ID  ")

WriteMASS == SnapshotBlock("MASS")

WriteU == SnapshotBlock("U   ")

WriteZ == SnapshotBlock("Z   ")

WriteRHO == SnapshotBlock("RHO ")

WriteHSML == SnapshotBlock("HSML")

Next ==
    \/ CallReadHeader
    \/ CallWriteBlock
    \/ CallWriteSnapshot
    \/ WriteHEAD
    \/ WritePOS
    \/ WriteVEL
    \/ WriteID
    \/ WriteMASS
    \/ WriteU
    \/ WriteZ
    \/ WriteRHO
    \/ WriteHSML
    \/ CallReadConfigurationFile

Spec == Init /\ [][Next]_vars

(***************************************************************************)
(* A conforming little-endian reader, used to state the properties.        *)
(***************************************************************************)
\* the 32-bit integer at offset off (0-based) of bs
ReadInt(bs, off) ==
    bs[off + 1] + 256 * bs[off + 2] + 65536 * bs[off + 3] + 16777216 * bs[off + 4]

\* the whole-number double at offset off of bs; -1 if it is none
ReadDouble(bs, off) ==
    LET lo == ReadInt(bs, off)
        hi == ReadInt(bs, off + 4)
        e == (hi \div 1048576) - 1023
        m == hi % 1048576
    IN  IF lo = 0 /\ hi = 0 THEN 0
        ELSE IF lo # 0 \/ e < 0 \/ e > 20 \/ m % Pow2(20 - e) # 0 THEN -1
        ELSE Pow2(e) + (m \div Pow2(20 - e))

\* the names of the blocks of a file, read block by block from offset off: a
\* name counts once its 4 bytes are in the file, the next block begins after
\* the closing marker
RECURSIVE ReadNames(_, _)
ReadNames(bs, off) ==
    IF Len(bs) < off + 8 THEN <<>>
    ELSE LET name == SubSeq(bs, off + 5, off + 8)
         IN  IF Len(bs) < off + 20 THEN <<name>>
             ELSE <<name>> \o ReadNames(bs, off + 24 + ReadInt(bs, off + 16))

SinkNames == ReadNames(outfile, 0)

FixedSequence ==
    <<BlockName("HEAD"), BlockName("POS "), BlockName("VEL "), BlockName("ID  "),
      BlockName("MASS"), BlockName("U   "), BlockName("Z   "), BlockName("RHO "),
      BlockName("HSML")>>

\* the place of a name in the fixed sequence, 0 if it has none
Rank(name) ==
    IF \E i \in 1..Len(FixedSequence) : FixedSequence[i] = name
    THEN CHOOSE i \in 1..Len(FixedSequence) : FixedSequence[i] = name
    ELSE 0

Has(names, b) == \E i \in 1..Len(names) : names[i] = BlockName(b)

InSnapshot == call = "write_snapshot"

SnapshotDone == call = "write_snapshot" /\ pc = "returned"

\* the last write_block call returned
BlockDone ==
    /\ exc = "none"
    /\ \/ call = "write_block" /\ pc = "returned"
       \/ call = "write_snapshot" /\ pc # "HEAD"

\* what the last write_block call appended
Added == SubSeq(outfile, Len(pre) + 1, Len(outfile))

(***************************************************************************)
(* C1  Ordering law.  At every point of a write_snapshot call the block    *)
(* names in the sink are a prefix of HEAD, 'POS ', 'VEL ', 'ID  ', 'MASS', *)
(* then those of 'U   ', 'Z   ', 'RHO ', 'HSML' that are emitted, in that  *)
(* order: the first five in place, every name once, none out of order; a   *)
(* completed write holds at least the first five.                          *)
(***************************************************************************)
C1_OrderingLaw ==
    InSnapshot =>
        LET ns == SinkNames
        IN  /\ \A i \in 1..Len(ns) : Rank(ns[i]) > 0
            /\ \A i \in 1..Len(ns) : i <= 5 => Rank(ns[i]) = i
            /\ \A i \in 2..Len(ns) : Rank(ns[i - 1]) < Rank(ns[i])
            /\ pc = "returned" => Len(ns) >= 5
            /\ pc \in {"idle", "HEAD"} => ns = <<>>

C1_Witness == SnapshotDone /\ SinkNames = FixedSequence

(***************************************************************************)
(* C2  Conditional-block law.  In the output of a completed write_snapshot *)
(* each of 'U   ', 'RHO ', 'HSML' is present iff the gas count n_part[0]   *)
(* is positive, and with a gas count of 0 none of 'U   ', 'Z   ', 'RHO ',  *)
(* 'HSML' is present, whatever data_list carries.                          *)
(***************************************************************************)
C2_ConditionalBlocks ==
    SnapshotDone =>
        LET ns == SinkNames
        IN  /\ \A b \in {"U   ", "RHO ", "HSML"} : Has(ns, b) <=> n_part[1] > 0
            /\ n_part[1] = 0 =>
                 \A b \in {"U   ", "Z   ", "RHO ", "HSML"} : ~Has(ns, b)

C2_Witness ==
    /\ SnapshotDone
    /\ n_part[1] = 0
    /\ Len(data_list) = 8
    /\ Len(SinkNames) = 5

(***************************************************************************)
(* C3  Metallicity block.  A completed write_snapshot emits 'Z   ' iff     *)
(* data_list has an eighth entry and the gas count is positive; when       *)
(* emitted it is there once, right after 'U   ' and right before 'RHO '.   *)
(***************************************************************************)
C3_MetallicityBlock ==
    SnapshotDone =>
        LET ns == SinkNames
        IN  /\ Has(ns, "Z   ") <=> (Len(data_list) > 7 /\ n_part[1] > 0)
            /\ Cardinality({i \in 1..Len(ns) : ns[i] = BlockName("Z   ")}) <= 1
            /\ \A i \in 1..Len(ns) :
                 ns[i] = BlockName("Z   ") =>
                    /\ i > 1 /\ ns[i - 1] = BlockName("U   ")
                    /\ i < Len(ns) /\ ns[i + 1] = BlockName("RHO ")

C3_Witness == SnapshotDone /\ Has(SinkNames, "Z   ")

(***************************************************************************)
(* C4  Block framing.  A write_block call that returns has appended to the *)
(* sink exactly: int 8, the 4 bytes of the name, int nbytes+8, int 8, int  *)
(* nbytes, the payload, int nbytes; nbytes is 256 for HEAD and 4 times the *)
(* element count otherwise; a block other than HEAD holds 4 bytes per      *)
(* element, HEAD holds the bytes handed in.                                *)
(***************************************************************************)
C4_BlockFraming ==
    BlockDone =>
        LET nb == IF block_name = HEAD THEN 256 ELSE 4 * PyLen(block_data)
            a == Added
        IN  /\ SubSeq(outfile, 1, Len(pre)) = pre
            /\ Len(block_name) = 4
            /\ Len(a) >= 24
            /\ ReadInt(a, 0) = 8
            /\ SubSeq(a, 5, 8) = block_name
            /\ ReadInt(a, 8) = nb + 8
            /\ ReadInt(a, 12) = 8
            /\ ReadInt(a, 16) = nb
            /\ ReadInt(a, Len(a) - 4) = nb
            /\ block_name # HEAD => Len(a) = 24 + 4 * PyLen(block_data)
            /\ block_name = HEAD => SubSeq(a, 21, Len(a) - 4) = block_data.raw

C4_Witness ==
    /\ BlockDone
    /\ call = "write_block"
    /\ block_name # HEAD
    /\ PyLen(block_data) = 2
    /\ pre # <<>>

(***************************************************************************)
(* C5  Header size.  read_header of 6 counts returns exactly 256 bytes,    *)
(* also as the header write_snapshot hands to its first write_block.       *)
(***************************************************************************)
C5_HeaderSize ==
    /\ (call = "read_header" /\ Len(n_part) = 6) =>
          pc = "returned" /\ exc = "none" /\ Len(packed_data) = 256
    /\ (InSnapshot /\ f_status # "none") => Len(header_data) = 256

C5_Witness ==
    /\ call = "read_header"
    /\ pc = "returned"
    /\ Len(n_part) = 6
    /\ \A i \in 1..6 : n_part[i] = BigCount

(***************************************************************************)
(* C6  Header layout and defaults.  Read field by field, the header holds  *)
(* the 6 counts, 6 masses 0.0, time 0.0, redshift 0.0, flag_sfr 0,         *)
(* flag_feedback 0, the 6 counts again as totals, flag_cooling 0,          *)
(* num_files 1, box_size 0.0, omega0 0.0, omega_lambda 0.0, hubble 1.0,    *)
(* flag_age 0, flag_metals 0 and zero padding, in this order.              *)
(***************************************************************************)
C6_HeaderLayout ==
    (call = "read_header" /\ pc = "returned") =>
        LET b == packed_data
        IN  /\ \A i \in 1..6 : ReadInt(b, 4 * (i - 1)) = n_part[i]
            /\ \A i \in 1..6 : ReadDouble(b, 24 + 8 * (i - 1)) = 0
            /\ ReadDouble(b, 72) = 0
            /\ ReadDouble(b, 80) = 0
            /\ ReadInt(b, 88) = 0
            /\ ReadInt(b, 92) = 0
            /\ \A i \in 1..6 : ReadInt(b, 96 + 4 * (i - 1)) = n_part[i]
            /\ ReadInt(b, 120) = 0
            /\ ReadInt(b, 124) = 1
            /\ ReadDouble(b, 128) = 0
            /\ ReadDouble(b, 136) = 0
            /\ ReadDouble(b, 144) = 0
            /\ ReadDouble(b, 152) = 1
            /\ ReadInt(b, 160) = 0
            /\ ReadInt(b, 164) = 0
            /\ \A j \in 169..Len(b) : b[j] = 0

C6_Witness ==
    /\ call = "read_header"
    /\ pc = "returned"
    /\ n_part[1] = BigCount
    /\ n_part[2] = 1
    /\ n_part[6] = 0

\* the partitioning of data_list finds every array it reads
PartitionOk ==
    /\ Len(n_part) >= 1
    /\ Len(data_list) >= 4
    /\ n_part[1] > 0 => Len(data_list) >= 7

(***************************************************************************)
(* C7  Unsupported format, as the claim states it: a write_snapshot call   *)
(* with a format other than 'gadget2' fails with ValueError whatever the   *)
(* counts and the data are, the sink never opened, no byte written.        *)
(***************************************************************************)
C7_UnsupportedFormat ==
    (InSnapshot /\ file_format # "gadget2") =>
        /\ pc = "raised"
        /\ exc = "ValueError"
        /\ f_status = "none"
        /\ outfile = <<>>

(***************************************************************************)
(* C7  Unsupported format, amended: a write_snapshot call with a format    *)
(* other than 'gadget2' fails before the header is encoded, the sink never *)
(* opened, no byte written; it fails with ValueError when the partitioning *)
(* of data_list finds its arrays, and with the partitioning's IndexError   *)
(* when it does not.                                                       *)
(***************************************************************************)
C7_UnsupportedFormatAmended ==
    (InSnapshot /\ file_format # "gadget2") =>
        /\ pc = "raised"
        /\ exc = IF PartitionOk THEN "ValueError" ELSE "IndexError"
        /\ f_status = "none"
        /\ outfile = <<>>
        /\ header_data = <<>>

C7_Witness ==
    /\ InSnapshot
    /\ file_format = "hdf5"
    /\ exc = "ValueError"
    /\ Len(n_part) = 5
    /\ Len(data_list) = 8

(***************************************************************************)
(* C8  Missing gas arrays.  A write_snapshot call with a positive gas      *)
(* count and a data_list without the internal-energy, density or           *)
(* smoothing-length array (fewer than 7 entries) fails with the            *)
(* IndexError of the partitioning, the sink never opened, no byte written. *)
(***************************************************************************)
C8_MissingGasArrays ==
    (InSnapshot /\ Len(n_part) >= 1 /\ n_part[1] > 0 /\ Len(data_list) < 7) =>
        /\ pc = "raised"
        /\ exc = "IndexError"
        /\ f_status = "none"
        /\ outfile = <<>>

C8_Witness ==
    /\ InSnapshot
    /\ Len(n_part) = 6
    /\ n_part[1] > 0
    /\ Len(data_list) = 6
    /\ file_format = "hdf5"
    /\ exc = "IndexError"

(***************************************************************************)
(* C9  Invalid header configuration.  read_header raises (struct.error)    *)
(* whenever n_part has not exactly 6 elements; a write_snapshot call with  *)
(* such an n_part fails before any I/O, the sink never opened and no byte  *)
(* written, and with read_header's error once the partitioning and the     *)
(* format test have passed.                                                *)
(***************************************************************************)
C9_InvalidHeaderConfiguration ==
    /\ (call = "read_header" /\ Len(n_part) # 6) =>
          pc = "raised" /\ exc = "struct.error"
    /\ (InSnapshot /\ Len(n_part) # 6) =>
          /\ pc = "raised"
          /\ f_status = "none"
          /\ outfile = <<>>
          /\ (PartitionOk /\ file_format = "gadget2") => exc = "struct.error"

C9_Witness ==
    /\ InSnapshot
    /\ Len(n_part) = 7
    /\ exc = "struct.error"

(***************************************************************************)
(* C10  Block name handling, as the claim states it: write_block writes a  *)
(* name of 1 to 4 characters as 4 bytes, padded with spaces, and fails for *)
(* an empty or longer name with nothing appended to the sink.              *)
(***************************************************************************)
C10_BlockNameHandling ==
    (call = "write_block" /\ \A i \in 1..Len(block_name) : block_name[i] < 128) =>
        /\ Len(block_name) \in 1..4 =>
              /\ Len(Added) >= 8
              /\ SubSeq(Added, 5, 8) = block_name \o Rep(32, 4 - Len(block_name))
        /\ Len(block_name) \notin 1..4 =>
              /\ pc = "raised"
              /\ outfile = pre

\* the last write_block call was handed a list of n > 0 elements, all of type k,
\* under a 4-character name other than HEAD
TypedCall(k, dt) ==
    /\ call \in {"write_block", "write_snapshot"}
    /\ pc \notin {"idle", "HEAD"}
    /\ Len(block_name) = 4
    /\ \A i \in 1..4 : block_name[i] < 128
    /\ block_name # HEAD
    /\ block_data.kind = "list"
    /\ PyLen(block_data) > 0
    /\ \A i \in 1..PyLen(block_data) : block_data.elems[i].k = k
    /\ data_type = dt

(***************************************************************************)
(* C11  Element-kind mismatch, as the claim states it: write_block raises  *)
(* when the declared kind does not match the element type, for integers    *)
(* declared 'f' as for floats declared 'i', and no payload is encoded      *)
(* under the wrong kind.                                                   *)
(***************************************************************************)
C11_ElementKindMismatch ==
    (TypedCall("int", "f") \/ TypedCall("float", "i")) =>
        /\ exc = "struct.error"
        /\ Len(Added) = 20

\* the document is read and its HEADER table holds every key of header_typing
CompleteHeader ==
    /\ call = "read_configuration_file"
    /\ configuration_data.file = "ok"
    /\ configuration_data.hasHeader
    /\ \A i \in 1..Len(header_typing) :
          HasKey(configuration_data.header, header_typing[i].key)

(***************************************************************************)
(* C12  Header configuration input, as the claim states it: for a document *)
(* whose HEADER holds every required key read_configuration_file raises no *)
(* error and leaves every header value with its declared type; it fails    *)
(* only when the HEADER section or a required key is absent.               *)
(***************************************************************************)
C12_HeaderCoercion ==
    /\ CompleteHeader =>
          /\ pc = "returned"
          /\ exc = "none"
          /\ \A i \in 1..Len(header) : \A j \in 1..Len(header_typing) :
                header[i].key = header_typing[j].key => header[i].t = header_typing[j].t
    /\ (call = "read_configuration_file" /\ configuration_data.file = "ok"
        /\ ~CompleteHeader) => exc = "SyntaxError"

(***************************************************************************)
(* C13  Declared length, as the claim states it: for every block that      *)
(* write_block completes, HEAD included and whatever the payload, the byte *)
(* count of its size marker equals the number of payload bytes between the *)
(* opening and the closing size marker.                                    *)
(***************************************************************************)
C13_DeclaredLength ==
    BlockDone =>
        /\ Len(Added) >= 24
        /\ ReadInt(Added, 16) = Len(Added) - 24

\* bs from offset off on is a concatenation of whole blocks: each has its
\* marker 8, name, three markers, as many payload bytes as its size marker
\* declares, and the closing marker
RECURSIVE WholeBlocks(_, _)
WholeBlocks(bs, off) ==
    IF Len(bs) = off THEN TRUE
    ELSE IF Len(bs) < off + 20 THEN FALSE
    ELSE LET nb == ReadInt(bs, off + 16)
         IN  /\ Len(bs) >= off + 24 + nb
             /\ ReadInt(bs, off) = 8
             /\ ReadInt(bs, off + 20 + nb) = nb
             /\ WholeBlocks(bs, off + 24 + nb)

\* the names are the first ones of the fixed sequence, but for the blocks the
\* call does not emit
PrefixOfFixedSequence(names) ==
    /\ \A i \in 1..Len(names) : Rank(names[i]) > 0
    /\ \A i, j \in 1..Len(names) : i < j => Rank(names[i]) < Rank(names[j])

(***************************************************************************)
(* C14  No partial-block writes, as the claim states it: in every state of *)
(* a write_snapshot call, the state a failing write_block leaves included, *)
(* the sink is a concatenation of whole framed blocks whose names follow   *)
(* the fixed sequence; it never ends inside a block.                       *)
(***************************************************************************)
C14_NoPartialBlocks ==
    InSnapshot =>
        /\ WholeBlocks(outfile, 0)
        /\ PrefixOfFixedSequence(SinkNames)

(***************************************************************************)
(* C15  Sink release.  In a write_snapshot call the sink is open exactly   *)
(* while the block writes are under way: once the call has returned or     *)
(* raised, the sink is closed (or was never opened); the call has raised   *)
(* exactly when an exception is pending, and that exception is the one the *)
(* failing write_block call, or read_header, raised, with the sink as that *)
(* write_block call left it.                                               *)
(***************************************************************************)
C15_SinkRelease ==
    InSnapshot =>
        /\ f_status = "open" <=> pc \notin {"returned", "raised"}
        /\ pc = "returned" => f_status = "closed"
        /\ pc = "raised" <=> exc # "none"
        /\ (pc = "raised" /\ f_status = "closed" /\ exc # "UnboundLocalError") =>
              /\ exc = write_block(pre, block_data, data_type, block_name).exc
              /\ outfile = write_block(pre, block_data, data_type, block_name).f
        /\ (pc = "raised" /\ f_status = "none" /\ PartitionOk /\ file_format = "gadget2") =>
              exc = read_header(n_part).exc

C15_Witness ==
    /\ InSnapshot
    /\ pc = "raised"
    /\ f_status = "closed"
    /\ exc = "struct.error"
    /\ Len(SinkNames) >= 4

====
